---- MODULE Spec2Model ----
(***************************************************************************)
(* Model of the lowering pass of the statig macro (macro/src/lower.rs):    *)
(* `lower` turns the analysed Model of a hierarchical state machine into   *)
(* the intermediate representation Ir.  The name-keyed maps of the Model   *)
(* and of the Ir are hash maps, so every loop over one of them is modelled *)
(* as one step per entry, taken in any order.                              *)
(***************************************************************************)
EXTENDS Naturals, Sequences, FiniteSets

VARIABLES
    model,                \* the analysed Model handed to `lower` (never changed)
    pc,                   \* position of `lower`
    todo,                 \* keys the loop at pc has not visited yet
    states,               \* local `states`: HashMap<Ident, State>
    superstates,          \* local `superstates`: HashMap<Ident, Superstate>
    superstates_clone,    \* local `superstates_clone`
    actions,              \* local `actions`: HashMap<Ident, Action>
    superstate_lifetime,  \* local `superstate_lifetime`: Option<Lifetime>
    mode,                 \* local `mode`
    event_type,           \* local `event_type`: Option<Type> of the scan
    context_type,         \* local `context_type`: Option<Type> of the scan
    err,                  \* the diagnostic of the abort, if any
    result                \* the value `lower` returns: Option<Ir>

vars == <<model, pc, todo, states, superstates, superstates_clone, actions,
          superstate_lifetime, mode, event_type, context_type, err, result>>

----------------------------------------------------------------------------
(* Option<T> *)

None == [tag |-> "None"]

Some(x) == [tag |-> "Some", val |-> x]

IsSome(o) == o.tag = "Some"

(* The empty map, and the key set of a map. *)
EmptyMap == [k \in {} |-> None]

Keys(map) == DOMAIN map

(* Idents are sequences of characters. *)
Ident(chars) == chars

LowerCase == <<"a", "b", "c", "d", "e", "f", "g", "h", "i", "j", "k", "l", "m",
               "n", "o", "p", "q", "r", "s", "t", "u", "v", "w", "x", "y", "z">>

UpperCase == <<"A", "B", "C", "D", "E", "F", "G", "H", "I", "J", "K", "L", "M",
               "N", "O", "P", "Q", "R", "S", "T", "U", "V", "W", "X", "Y", "Z">>

(* char::to_uppercase *)
to_uppercase(c) ==
    IF \E i \in 1..Len(LowerCase) : LowerCase[i] = c
    THEN UpperCase[CHOOSE i \in 1..Len(LowerCase) : LowerCase[i] = c]
    ELSE c

(* str::split('_'): the parts between the separators, empty parts included. *)
RECURSIVE split(_, _)
split(chars, cur) ==
    IF chars = <<>> THEN <<cur>>
    ELSE IF Head(chars) = "_" THEN <<cur>> \o split(Tail(chars), <<>>)
    ELSE split(Tail(chars), Append(cur, Head(chars)))

RECURSIVE concat_parts(_)
concat_parts(parts) ==
    IF parts = <<>> THEN <<>>
    ELSE LET part == Head(parts)
             head == IF part = <<>> THEN <<>>
                     ELSE <<to_uppercase(Head(part))>> \o Tail(part)
         IN  head \o concat_parts(Tail(parts))

(* Only the first character of the name is uppercased. *)
snake_case_to_pascal_case_capitalize(snake) ==
    Ident(IF snake = <<>> THEN <<>> ELSE <<to_uppercase(Head(snake))>> \o Tail(snake))

snake_case_to_pascal_case(snake) == Ident(concat_parts(split(snake, <<>>)))

----------------------------------------------------------------------------
(* Types, as far as the pass looks into them. *)

TypePath(name) == [kind |-> "path", name |-> name]

TypeReference(lifetime, elem) == [kind |-> "reference", lifetime |-> lifetime, elem |-> elem]

UnitType == [kind |-> "tuple", elems |-> <<>>]

SUPERSTATE_LIFETIME == "'sub"

(* A named field `ident: ty`. *)
Field(ident, ty) == [ident |-> ident, ty |-> ty]

(* A typed parameter `pat: ty` whose pattern is an ident. *)
PatType(ident, ty) == [pat |-> ident, ty |-> ty]

FnArgReceiver == [kind |-> "receiver"]

FnArgTyped(pat_type) == [kind |-> "typed", pat_type |-> pat_type]

EmptyBlock == [kind |-> "block", stmts |-> <<>>]

PatNone == [kind |-> "path", name |-> "None"]

PatSome(pat) == [kind |-> "some", pat |-> pat]

shared_storage == Ident(<<"s", "h", "a", "r", "e", "d", "_", "s", "t", "o", "r", "a", "g", "e">>)

(* The turbofish of the shared storage type: its parameters' names. *)
as_turbofish(generics) == [i \in 1..Len(generics.params) |-> generics.params[i].ident]

(* Every call is awaited. *)
HandlerCall_awaited(state_machine, handler_name, inputs, is_async) ==
    [kind      |-> "call",
     ty        |-> state_machine.shared_storage_ident,
     turbofish |-> as_turbofish(state_machine.shared_storage_generics),
     method    |-> handler_name,
     args      |-> inputs,
     await     |-> TRUE]

(* #shared_storage_ident #turbofish :: #handler_name ( #(#inputs),* ) [.await] *)
HandlerCall(state_machine, handler_name, inputs, is_async) ==
    [kind      |-> "call",
     ty        |-> state_machine.shared_storage_ident,
     turbofish |-> as_turbofish(state_machine.shared_storage_generics),
     method    |-> handler_name,
     args      |-> inputs,
     await     |-> is_async]

(* The receiver is passed on as `self`. *)
fn_arg_to_ident_self(fn_arg) ==
    IF fn_arg.kind = "receiver" THEN Ident(<<"s", "e", "l", "f">>) ELSE fn_arg.pat_type.pat

fn_arg_to_ident(fn_arg) ==
    IF fn_arg.kind = "receiver" THEN shared_storage ELSE fn_arg.pat_type.pat

(* `abort!(pat_type, "input must be passed as a reference")` *)
is_reference(pat_type) == pat_type.ty.kind = "reference"

fn_arg_to_state_field(pat_type) == Field(pat_type.pat, pat_type.ty.elem)

fn_arg_to_superstate_field(pat_type) ==
    Field(pat_type.pat, TypeReference(SUPERSTATE_LIFETIME, pat_type.ty.elem))

(* The first index of the field of that name, 0 if there is none. *)
find_field(fields, ident) ==
    IF \E i \in 1..Len(fields) : fields[i].ident = ident
    THEN CHOOSE i \in 1..Len(fields) :
            /\ fields[i].ident = ident
            /\ \A j \in 1..(i - 1) : fields[j].ident # ident
    ELSE 0

(* Every local storage field is pushed. *)
overlay_local_storage_push(variant_fields, local_storage) == variant_fields \o local_storage

(* for field in local_storage { replace the field of that name, or push } *)
RECURSIVE overlay_local_storage(_, _)
overlay_local_storage(variant_fields, local_storage) ==
    IF local_storage = <<>> THEN variant_fields
    ELSE LET field == Head(local_storage)
             at    == find_field(variant_fields, field.ident)
             next  == IF at = 0 THEN Append(variant_fields, field)
                      ELSE [variant_fields EXCEPT ![at] = field]
         IN  overlay_local_storage(next, Tail(local_storage))

MapSeq(F(_), seq) == [i \in 1..Len(seq) |-> F(seq[i])]

field_ident(field) == field.ident

lower_state(state, state_machine) ==
    LET variant_name   == snake_case_to_pascal_case(state.handler_name)
        variant_fields == overlay_local_storage(
                              MapSeq(fn_arg_to_state_field, state.state_inputs),
                              state.local_storage)
        pat_fields     == MapSeq(field_ident, variant_fields)
        handler_inputs == MapSeq(fn_arg_to_ident, state.inputs)
    IN  [variant           |-> [ident |-> variant_name, fields |-> variant_fields],
         pat               |-> [ty |-> state_machine.state_ident,
                                variant |-> variant_name, fields |-> pat_fields],
         constructor       |-> [ident |-> state.handler_name, inputs |-> variant_fields,
                                variant |-> variant_name, fields |-> pat_fields],
         handler_call      |-> HandlerCall(state_machine, state.handler_name,
                                           handler_inputs, state.is_async),
         entry_action_call |-> EmptyBlock,
         exit_action_call  |-> EmptyBlock,
         superstate_pat    |-> PatNone]

lower_superstate(superstate, state_machine) ==
    LET superstate_name == snake_case_to_pascal_case(superstate.handler_name)
        variant_fields  == overlay_local_storage(
                               MapSeq(fn_arg_to_superstate_field, superstate.state_inputs),
                               superstate.local_storage)
        pat_fields      == MapSeq(field_ident, variant_fields)
        handler_inputs  == MapSeq(fn_arg_to_ident, superstate.inputs)
    IN  [variant           |-> [ident |-> superstate_name, fields |-> variant_fields],
         pat               |-> [ty |-> state_machine.superstate_ident,
                                variant |-> superstate_name, fields |-> pat_fields],
         handler_call      |-> HandlerCall(state_machine, superstate.handler_name,
                                           handler_inputs, superstate.is_async),
         entry_action_call |-> EmptyBlock,
         exit_action_call  |-> EmptyBlock,
         superstate_pat    |-> PatNone]

(* for input in inputs { receiver: insert(0, shared_storage); typed: push(ident) } *)
RECURSIVE call_inputs(_, _)
call_inputs(inputs, acc) ==
    IF inputs = <<>> THEN acc
    ELSE LET input == Head(inputs)
             next  == IF input.kind = "receiver" THEN <<shared_storage>> \o acc
                      ELSE Append(acc, input.pat_type.pat)
         IN  call_inputs(Tail(inputs), next)

lower_action(action, state_machine) ==
    [handler_call |-> HandlerCall(state_machine, action.handler_name,
                                  call_inputs(action.inputs, <<>>), action.is_async)]

----------------------------------------------------------------------------
(* Generics: params is the parameter list, where_clause an Option of the   *)
(* predicate list.  A GenericArgument is a record [kind, name].            *)

GenericsDefault == [params |-> <<>>, where_clause |-> None]

GenericArgumentType(name) == [kind |-> "type", name |-> name]

GenericArgumentLifetime(name) == [kind |-> "lifetime", name |-> name]

(* The key map_generics files a parameter under: a const parameter goes    *)
(* under GenericArgument::Type of its ident.                               *)
param_argument(param) ==
    IF param.kind = "lifetime" THEN GenericArgumentLifetime(param.ident)
    ELSE GenericArgumentType(param.ident)

(* The argument a where-predicate constrains; None for `_ => continue`.    *)
predicate_argument(predicate) ==
    IF predicate.kind = "type" THEN Some(GenericArgumentType(predicate.bounded))
    ELSE IF predicate.kind = "lifetime" THEN Some(GenericArgumentLifetime(predicate.bounded))
    ELSE None

where_predicates(generics) ==
    IF IsSome(generics.where_clause) THEN generics.where_clause.val ELSE <<>>

(* Every entry holds the whole where-clause. *)
map_generics_whole_clause(generics) ==
    [i \in 1..Len(generics.params) |->
        [key        |-> param_argument(generics.params[i]),
         param      |-> generics.params[i],
         predicates |-> where_predicates(generics)]]

(* Vec<(GenericArgument, GenericParam, Vec<WherePredicate>)>: one entry per *)
(* parameter, in declaration order; a predicate goes to the first entry of  *)
(* its argument.                                                            *)
map_generics(generics) ==
    LET params == generics.params
        arg(i) == param_argument(params[i])
        first(a) == CHOOSE i \in 1..Len(params) :
                        /\ arg(i) = a
                        /\ \A j \in 1..(i - 1) : arg(j) # a
        goes_to(predicate, i) ==
            /\ IsSome(predicate_argument(predicate))
            /\ \E j \in 1..Len(params) : arg(j) = predicate_argument(predicate).val
            /\ first(predicate_argument(predicate).val) = i
    IN  [i \in 1..Len(params) |->
            LET mine(predicate) == goes_to(predicate, i)
            IN  [key        |-> arg(i),
                 param      |-> params[i],
                 predicates |-> SelectSeq(where_predicates(generics), mine)]]

(* Merge all the sets of the candidates generics of the items of a map.    *)
merge_candidates(items) ==
    UNION {items[k].candidates_generics : k \in Keys(items)}

(* No merge: every candidate counts as referenced. *)
state_candidates_generics_all(m) == m.state_machine.candidates_generics

state_candidates_generics(m) == merge_candidates(m.states)

(* lower.rs merges over model.states here too. *)
superstate_candidates_generics(m) == merge_candidates(m.states)

(* for (key, param, predicates) in map { if arguments.contains(key) ... }  *)
RECURSIVE filter_generics(_, _, _)
filter_generics(map, arguments, acc) ==
    IF map = <<>> THEN acc
    ELSE LET entry == Head(map)
             next  == IF entry.key \in arguments
                      THEN [params       |-> Append(acc.params, entry.param),
                            where_clause |->
                                IF IsSome(acc.where_clause)
                                THEN Some(acc.where_clause.val \o entry.predicates)
                                ELSE Some(entry.predicates)]
                      ELSE acc
         IN  filter_generics(Tail(map), arguments, next)

LifetimeDef(lifetime) == [kind |-> "lifetime", ident |-> lifetime, bounds |-> <<>>]

push_lifetime(generics, lifetime) ==
    IF IsSome(lifetime)
    THEN [generics EXCEPT !.params = Append(@, LifetimeDef(lifetime.val))]
    ELSE generics

state_generics_of(m) ==
    filter_generics(map_generics(m.state_machine.shared_storage_generics),
                    m.state_machine.candidates_generics \cap state_candidates_generics(m),
                    GenericsDefault)

superstate_generics_of(m, lifetime) ==
    push_lifetime(
        filter_generics(map_generics(m.state_machine.shared_storage_generics),
                        m.state_machine.candidates_generics
                            \cap superstate_candidates_generics(m),
                        GenericsDefault),
        lifetime)

(* The scan's candidate before the explicit type. *)
resolve_type_inferred_first(explicit, inferred) ==
    IF IsSome(inferred) THEN inferred.val
    ELSE IF IsSome(explicit) THEN explicit.val
    ELSE UnitType

(* Explicit machine-level type > the scan's candidate > (). *)
resolve_type(explicit, inferred) ==
    IF IsSome(explicit) THEN explicit.val
    ELSE IF IsSome(inferred) THEN inferred.val
    ELSE UnitType

----------------------------------------------------------------------------
(* The steps of `lower`. *)

Loops == <<"link_states", "link_superstates", "scan_states", "scan_superstates",
           "scan_actions">>

(* The map a loop iterates over. *)
loop_keys(loop) ==
    IF loop \in {"link_states", "scan_states"} THEN Keys(model.states)
    ELSE IF loop \in {"link_superstates", "scan_superstates"} THEN Keys(model.superstates)
    ELSE Keys(model.actions)

(* The first loop from position i on that has an entry to visit; after the *)
(* last loop the generics are partitioned and the Ir is assembled.         *)
RECURSIVE enter_loop(_)
enter_loop(i) ==
    IF i > Len(Loops) THEN "assemble"
    ELSE IF loop_keys(Loops[i]) # {} THEN Loops[i]
    ELSE enter_loop(i + 1)

loop_index(loop) == CHOOSE i \in 1..Len(Loops) : Loops[i] = loop

(* One entry of the loop at pc has been visited. *)
advance(key) ==
    LET left == todo \ {key}
        next == enter_loop(loop_index(pc) + 1)
    IN  IF left # {} THEN /\ pc' = pc
                          /\ todo' = left
                          /\ superstates_clone' = superstates_clone
        ELSE /\ pc' = next
             /\ todo' = IF next = "assemble" THEN {} ELSE loop_keys(next)
             /\ superstates_clone' =
                    IF pc = "link_states" /\ next = "link_superstates"
                    THEN superstates ELSE superstates_clone

Diagnostic(reason, ident, site) == [reason |-> reason, ident |-> ident, site |-> site]

(* abort!, todo!: the pass ends here and returns nothing. *)
abort(diagnostic) ==
    /\ pc' = "aborted"
    /\ err' = Some(diagnostic)
    /\ todo' = {}
    /\ UNCHANGED <<model, states, superstates, superstates_clone, actions,
                   superstate_lifetime, mode, event_type, context_type, result>>

(* The state inputs of an item that are not references, in order. *)
malformed_inputs(item) ==
    SelectSeq(item.state_inputs, LAMBDA pat_type : ~is_reference(pat_type))

malformed_keys(items) == {k \in Keys(items) : malformed_inputs(items[k]) # <<>>}

BuildStates ==
    /\ pc = "build_states"
    /\ IF malformed_keys(model.states) # {}
       THEN \E key \in malformed_keys(model.states) :
                abort(Diagnostic("input must be passed as a reference",
                                 Head(malformed_inputs(model.states[key])).pat,
                                 <<"state", key>>))
       ELSE /\ states' = [key \in Keys(model.states) |->
                            lower_state(model.states[key], model.state_machine)]
            /\ pc' = "build_superstates"
            /\ UNCHANGED <<model, todo, superstates, superstates_clone, actions,
                           superstate_lifetime, mode, event_type, context_type,
                           err, result>>

(* .inspect(|(_, value)| if !value.state_inputs.is_empty() { ... }) *)
inspect_lifetime(items) ==
    IF \E key \in Keys(items) : items[key].state_inputs # <<>>
    THEN Some(SUPERSTATE_LIFETIME) ELSE None

BuildSuperstates ==
    /\ pc = "build_superstates"
    /\ IF malformed_keys(model.superstates) # {}
       THEN \E key \in malformed_keys(model.superstates) :
                abort(Diagnostic("input must be passed as a reference",
                                 Head(malformed_inputs(model.superstates[key])).pat,
                                 <<"superstate", key>>))
       ELSE /\ superstates' = [key \in Keys(model.superstates) |->
                                lower_superstate(model.superstates[key],
                                                 model.state_machine)]
            /\ superstate_lifetime' = inspect_lifetime(model.superstates)
            /\ pc' = "build_actions"
            /\ UNCHANGED <<model, todo, states, superstates_clone, actions, mode,
                           event_type, context_type, err, result>>

BuildActions ==
    /\ pc = "build_actions"
    /\ actions' = [key \in Keys(model.actions) |->
                      lower_action(model.actions[key], model.state_machine)]
    /\ pc' = enter_loop(1)
    /\ todo' = IF enter_loop(1) = "assemble" THEN {} ELSE loop_keys(enter_loop(1))
    /\ superstates_clone' =
           IF enter_loop(1) = "link_superstates" THEN superstates ELSE superstates_clone
    /\ UNCHANGED <<model, states, superstates, superstate_lifetime, mode, event_type,
                   context_type, err, result>>

(* The first unresolved reference of an item, in the order the code looks  *)
(* them up: superstate, entry action, exit action.  None if all resolve.   *)
link_error(item, site, superstate_map, action_map, entry_reason, exit_reason) ==
    IF IsSome(item.superstate) /\ item.superstate.val \notin Keys(superstate_map)
    THEN Some(Diagnostic("superstate not found", item.superstate.val, site))
    ELSE IF IsSome(item.entry_action) /\ item.entry_action.val \notin Keys(action_map)
    THEN Some(Diagnostic(entry_reason, item.entry_action.val, site))
    ELSE IF IsSome(item.exit_action) /\ item.exit_action.val \notin Keys(action_map)
    THEN Some(Diagnostic(exit_reason, item.exit_action.val, site))
    ELSE None

(* A link that is never written. *)
link_superstate_pat_unlinked(lowered, item, superstate_map) == lowered.superstate_pat

link_superstate_pat(lowered, item, superstate_map) ==
    IF IsSome(item.superstate)
    THEN PatSome(superstate_map[item.superstate.val].pat)
    ELSE lowered.superstate_pat

link_entry_action_call(lowered, item, action_map) ==
    IF IsSome(item.entry_action)
    THEN action_map[item.entry_action.val].handler_call
    ELSE lowered.entry_action_call

(* The exit action bound from the entry action's name. *)
link_exit_action_call_entry(lowered, item, action_map) ==
    IF IsSome(item.entry_action)
    THEN action_map[item.entry_action.val].handler_call
    ELSE lowered.exit_action_call

link_exit_action_call(lowered, item, action_map) ==
    IF IsSome(item.exit_action)
    THEN action_map[item.exit_action.val].handler_call
    ELSE lowered.exit_action_call

(* The entry action's call is written to the handler call as well. *)
linked_handler_call(lowered, item, superstate_map, action_map) ==
    [lowered EXCEPT
        !.superstate_pat    = link_superstate_pat(lowered, item, superstate_map),
        !.entry_action_call = link_entry_action_call(lowered, item, action_map),
        !.exit_action_call  = link_exit_action_call(lowered, item, action_map),
        !.handler_call      = link_entry_action_call(lowered, item, action_map)]

(* The descriptor with its three cross-references bound. *)
linked(lowered, item, superstate_map, action_map) ==
    [lowered EXCEPT
        !.superstate_pat    = link_superstate_pat(lowered, item, superstate_map),
        !.entry_action_call = link_entry_action_call(lowered, item, action_map),
        !.exit_action_call  = link_exit_action_call(lowered, item, action_map)]

LinkState(key) ==
    /\ pc = "link_states"
    /\ key \in todo
    /\ LET item  == model.states[key]
           error == link_error(item, <<"state", key>>, superstates, actions,
                               "entry action not found", "exit action not found")
       IN  IF IsSome(error) THEN abort(error.val)
           ELSE /\ states' = [states EXCEPT
                                 ![key] = linked(states[key], item, superstates, actions)]
                /\ advance(key)
                /\ UNCHANGED <<model, superstates, actions, superstate_lifetime, mode,
                               event_type, context_type, err, result>>

LinkSuperstate(key) ==
    /\ pc = "link_superstates"
    /\ key \in todo
    /\ LET item  == model.superstates[key]
           error == link_error(item, <<"superstate", key>>, superstates_clone, actions,
                               "action not found", "action not found")
       IN  IF IsSome(error) THEN abort(error.val)
           ELSE /\ superstates' =
                       [superstates EXCEPT
                           ![key] = linked(superstates[key], item, superstates_clone,
                                           actions)]
                /\ advance(key)
                /\ UNCHANGED <<model, states, actions, superstate_lifetime, mode,
                               event_type, context_type, err, result>>

(* Whether the parameter is the one bound to the configured identifier.    *)
binds(arg, ident) == IsSome(arg) /\ arg.val.pat = ident

(* `Type::Reference(reference) => ...`, `_ => todo!()` *)
scan_panics(arg, ident) == binds(arg, ident) /\ ~is_reference(arg.val)

(* Only the first matching parameter is recorded. *)
scan_type_first(arg, ident, current) ==
    IF binds(arg, ident) /\ ~IsSome(current) THEN Some(arg.val.ty.elem) ELSE current

scan_type(arg, ident, current) ==
    IF binds(arg, ident) THEN Some(arg.val.ty.elem) ELSE current

(* The mode of the handler scanned last. *)
scan_mode_last(is_async, current) == IF is_async THEN "Awaitable" ELSE "Blocking"

scan_mode(is_async, current) == IF is_async THEN "Awaitable" ELSE current

(* The body the two loops over states and superstates share. *)
scan_handler(item, site, key) ==
    LET sm == model.state_machine
    IN  IF scan_panics(item.event_arg, sm.event_ident)
        THEN abort(Diagnostic("not yet implemented", item.event_arg.val.pat, site))
        ELSE IF scan_panics(item.context_arg, sm.context_ident)
        THEN abort(Diagnostic("not yet implemented", item.context_arg.val.pat, site))
        ELSE /\ event_type' = scan_type(item.event_arg, sm.event_ident, event_type)
             /\ context_type' = scan_type(item.context_arg, sm.context_ident,
                                          context_type)
             /\ mode' = scan_mode(item.is_async, mode)
             /\ advance(key)
             /\ UNCHANGED <<model, states, superstates, actions, superstate_lifetime,
                            err, result>>

ScanState(key) ==
    /\ pc = "scan_states"
    /\ key \in todo
    /\ scan_handler(model.states[key], <<"state", key>>, key)

ScanSuperstate(key) ==
    /\ pc = "scan_superstates"
    /\ key \in todo
    /\ scan_handler(model.superstates[key], <<"superstate", key>>, key)

ScanAction(key) ==
    /\ pc = "scan_actions"
    /\ key \in todo
    /\ mode' = scan_mode(model.actions[key].is_async, mode)
    /\ advance(key)
    /\ UNCHANGED <<model, states, superstates, actions, superstate_lifetime,
                   event_type, context_type, err, result>>

(* StateMachine { ... } and Ir { ... } *)
assemble(m) ==
    [item_impl     |-> m.item_impl,
     state_machine |->
        [initial_state           |-> m.state_machine.initial_state,
         shared_storage_type     |-> m.state_machine.shared_storage_type,
         shared_storage_generics |-> m.state_machine.shared_storage_generics,
         event_type              |-> resolve_type(m.state_machine.event_type, event_type),
         context_type            |-> resolve_type(m.state_machine.context_type,
                                                  context_type),
         state_ident             |-> m.state_machine.state_ident,
         state_generics          |-> state_generics_of(m),
         superstate_ident        |-> m.state_machine.superstate_ident,
         superstate_generics     |-> superstate_generics_of(m, superstate_lifetime),
         event_ident             |-> m.state_machine.event_ident,
         context_ident           |-> m.state_machine.context_ident,
         mode                    |-> mode],
     states        |-> states,
     superstates   |-> superstates]

Assemble ==
    /\ pc = "assemble"
    /\ result' = Some(assemble(model))
    /\ pc' = "done"
    /\ UNCHANGED <<model, todo, states, superstates, superstates_clone, actions,
                   superstate_lifetime, mode, event_type, context_type, err>>

(* The five loops: one entry of the map, any entry not yet visited. *)
LinkStates == \E key \in todo : LinkState(key)

LinkSuperstates == \E key \in todo : LinkSuperstate(key)

ScanStates == \E key \in todo : ScanState(key)

ScanSuperstates == \E key \in todo : ScanSuperstate(key)

ScanActions == \E key \in todo : ScanAction(key)

Next ==
    \/ BuildStates
    \/ BuildSuperstates
    \/ BuildActions
    \/ LinkStates
    \/ LinkSuperstates
    \/ ScanStates
    \/ ScanSuperstates
    \/ ScanActions
    \/ Assemble

(* `lower` is entered with a Model of the given family. *)
Enter(models) ==
    /\ model \in models
    /\ pc = "build_states"
    /\ todo = {}
    /\ states = EmptyMap
    /\ superstates = EmptyMap
    /\ superstates_clone = EmptyMap
    /\ actions = EmptyMap
    /\ superstate_lifetime = None
    /\ mode = "Blocking"
    /\ event_type = None
    /\ context_type = None
    /\ err = None
    /\ result = None

----------------------------------------------------------------------------
(* The Models `lower` is entered with.  The fixtures of the tests          *)
(* (create_analyze_state, ...) are the base; each family varies the part   *)
(* of the Model that one part of the pass reads.                            *)

n_on == Ident(<<"o", "n">>)

n_off == Ident(<<"o", "f", "f">>)

n_playing == Ident(<<"p", "l", "a", "y", "i", "n", "g">>)

n_paused == Ident(<<"p", "a", "u", "s", "e", "d">>)

n_ghost == Ident(<<"g", "h", "o", "s", "t">>)

n_enter_on == Ident(<<"e", "n", "t", "e", "r", "_", "o", "n">>)

n_exit_on == Ident(<<"e", "x", "i", "t", "_", "o", "n">>)

n_tick == Ident(<<"t", "i", "c", "k">>)

n_nope == Ident(<<"n", "o", "p", "e">>)

n_input == Ident(<<"i", "n", "p", "u", "t">>)

n_event == Ident(<<"e", "v", "e", "n", "t">>)

n_context == Ident(<<"c", "o", "n", "t", "e", "x", "t">>)

n_ctx == Ident(<<"c", "t", "x">>)

n_led == Ident(<<"l", "e", "d">>)

n_counter == Ident(<<"c", "o", "u", "n", "t", "e", "r">>)

n_speed == Ident(<<"s", "p", "e", "e", "d">>)

n_extra == Ident(<<"e", "x", "t", "r", "a">>)

(* The longest list of state inputs and of local storage fields enumerated. *)
MaxInputs == 2

MaxLocal == 2

(* The sequences over S of length at most n. *)
SeqsUpTo(S, n) == UNION {[1..len -> S] : len \in 0..n}

distinct_names(seq) ==
    \A i, j \in 1..Len(seq) : i # j => seq[i].pat # seq[j].pat

RefTo(name) == TypeReference("", TypePath(name))

AnalyzeStateMachine ==
    [initial_state           |-> "State::on()",
     shared_storage_type     |-> TypePath("Blinky"),
     shared_storage_ident    |-> "Blinky",
     shared_storage_generics |-> GenericsDefault,
     candidates_generics     |-> {},
     event_type              |-> None,
     context_type            |-> None,
     state_ident             |-> "State",
     superstate_ident        |-> "Superstate",
     event_ident             |-> n_input,
     context_ident           |-> n_context]

p_input == PatType(n_input, RefTo("Event"))

p_led == PatType(n_led, RefTo("bool"))

p_counter == PatType(n_counter, RefTo("usize"))

p_speed == PatType(n_speed, RefTo("u32"))

(* A handler whose parameters are the receiver, the event and its state inputs. *)
Handler(handler_name, superstate, state_inputs) ==
    [handler_name        |-> handler_name,
     superstate          |-> superstate,
     entry_action        |-> None,
     exit_action         |-> None,
     local_storage       |-> <<>>,
     inputs              |-> <<FnArgReceiver, FnArgTyped(p_input)>>
                                \o MapSeq(FnArgTyped, state_inputs),
     event_arg           |-> Some(PatType(n_event, RefTo("Event"))),
     context_arg         |-> None,
     state_inputs        |-> state_inputs,
     candidates_generics |-> {},
     is_async            |-> FALSE]

AnalyzeAction(handler_name, inputs, is_async) ==
    [handler_name |-> handler_name, inputs |-> inputs, is_async |-> is_async]

StateOn == Handler(n_on, Some(n_playing), <<p_led, p_counter>>)

StateOff == Handler(n_off, None, <<p_led>>)

SuperstatePlaying == Handler(n_playing, None, <<p_led, p_counter>>)

SuperstatePaused == Handler(n_paused, None, <<p_led>>)

ActionEnterOn == AnalyzeAction(n_enter_on, <<FnArgReceiver, FnArgTyped(p_led)>>, FALSE)

ActionExitOn == AnalyzeAction(n_exit_on, <<FnArgReceiver, FnArgTyped(p_counter)>>, FALSE)

ActionTick == AnalyzeAction(n_tick, <<FnArgReceiver>>, FALSE)

(* A map keyed by handler name. *)
by_name(items) ==
    [key \in {item.handler_name : item \in items} |->
        CHOOSE item \in items : item.handler_name = key]

AnalyzeModel(state_machine, state_set, superstate_set, action_set) ==
    [item_impl     |-> "impl Blinky { }",
     state_machine |-> state_machine,
     states        |-> by_name(state_set),
     superstates   |-> by_name(superstate_set),
     actions       |-> by_name(action_set)]

(* Cross-references: resolved, unresolved and absent ones. *)
LinkModels ==
    {AnalyzeModel(AnalyzeStateMachine,
        {[StateOn EXCEPT !.superstate = s1, !.entry_action = e1, !.exit_action = x1],
         [StateOff EXCEPT !.superstate = s2]},
        {[SuperstatePlaying EXCEPT !.superstate = s3, !.entry_action = e3,
                                   !.exit_action = x3],
         SuperstatePaused},
        {ActionEnterOn, ActionExitOn}) :
        s1 \in {None, Some(n_playing), Some(n_paused), Some(n_off)},
        e1 \in {None, Some(n_enter_on), Some(n_exit_on), Some(n_playing)},
        x1 \in {None, Some(n_exit_on), Some(n_nope)},
        s2 \in {None, Some(n_ghost)},
        s3 \in {None, Some(n_paused), Some(n_playing), Some(n_on)},
        e3 \in {None, Some(n_enter_on), Some(n_nope)},
        x3 \in {None, Some(n_exit_on)}}

(* The parameter a handler binds the event or the context to: none, one  *)
(* of the configured name with a reference type, one of another name, and *)
(* one of the configured name whose type is no reference.                 *)
EventArgs ==
    {None,
     Some(PatType(n_input, RefTo("Event"))),
     Some(PatType(n_input, RefTo("Other"))),
     Some(PatType(n_event, RefTo("Event"))),
     Some(PatType(n_input, TypePath("Event")))}

ContextArgs ==
    {None,
     Some(PatType(n_context, RefTo("Context"))),
     Some(PatType(n_context, RefTo("Other"))),
     Some(PatType(n_ctx, RefTo("Context"))),
     Some(PatType(n_context, TypePath("Context")))}

ResolvedOn == [StateOn EXCEPT !.entry_action = Some(n_enter_on)]

EventModels ==
    {AnalyzeModel([AnalyzeStateMachine EXCEPT !.event_type = explicit],
        {[ResolvedOn EXCEPT !.event_arg = a1], [StateOff EXCEPT !.event_arg = a2]},
        {[SuperstatePlaying EXCEPT !.event_arg = a3]},
        {ActionEnterOn, ActionTick}) :
        explicit \in {None, Some(TypePath("Explicit"))},
        a1 \in EventArgs, a2 \in EventArgs, a3 \in EventArgs}

ContextModels ==
    {AnalyzeModel([AnalyzeStateMachine EXCEPT !.context_type = explicit],
        {[ResolvedOn EXCEPT !.context_arg = a1], [StateOff EXCEPT !.context_arg = a2]},
        {[SuperstatePlaying EXCEPT !.context_arg = a3]},
        {ActionEnterOn, ActionTick}) :
        explicit \in {None, Some(TypePath("Explicit"))},
        a1 \in ContextArgs, a2 \in ContextArgs, a3 \in ContextArgs}

ModeModels ==
    {AnalyzeModel(AnalyzeStateMachine,
        {[ResolvedOn EXCEPT !.is_async = b1], [StateOff EXCEPT !.is_async = b2]},
        {[SuperstatePlaying EXCEPT !.is_async = b3]},
        {[ActionEnterOn EXCEPT !.is_async = b4], [ActionTick EXCEPT !.is_async = b5]}) :
        b1 \in BOOLEAN, b2 \in BOOLEAN, b3 \in BOOLEAN, b4 \in BOOLEAN, b5 \in BOOLEAN}

ScanModels == EventModels \cup ContextModels \cup ModeModels

(* struct Blinky<'a, T: Default, const N: usize>                          *)
(*     where T: Clone, 'a: 'static, Vec<T>: Sized, T: Send                *)
GenericParam(kind, ident, bounds) == [kind |-> kind, ident |-> ident, bounds |-> bounds]

WherePredicate(kind, bounded, bounds) == [kind |-> kind, bounded |-> bounded, bounds |-> bounds]

param_a == GenericParam("lifetime", "'a", <<>>)

param_T == GenericParam("type", "T", <<"Default">>)

param_N == GenericParam("const", "N", <<"usize">>)

SharedWhere ==
    <<WherePredicate("type", "T", <<"Clone">>),
      WherePredicate("lifetime", "'a", <<"'static">>),
      WherePredicate("type", "Vec<T>", <<"Sized">>),
      WherePredicate("type", "T", <<"Send">>)>>

SharedGenerics ==
    {[params |-> <<param_a, param_T, param_N>>, where_clause |-> Some(SharedWhere)],
     [params |-> <<param_T, param_N>>, where_clause |-> None]}

g_a == GenericArgumentLifetime("'a")

g_T == GenericArgumentType("T")

g_N == GenericArgumentType("N")

GenericsModels ==
    {AnalyzeModel([AnalyzeStateMachine EXCEPT !.shared_storage_generics = shared,
                                              !.candidates_generics = candidates],
        {[ResolvedOn EXCEPT !.candidates_generics = c1],
         [StateOff EXCEPT !.candidates_generics = c2]},
        {[SuperstatePlaying EXCEPT !.candidates_generics = c3], SuperstatePaused},
        {ActionEnterOn}) :
        shared \in SharedGenerics,
        candidates \in SUBSET {g_a, g_T, g_N},
        c1 \in SUBSET {g_a, g_T},
        c2 \in {{}, {g_N}},
        c3 \in SUBSET {g_a, g_T, g_N}}

(* State inputs and local storage.  A handler's parameter names are       *)
(* distinct; the names of its local storage fields need not be.           *)
InputParams == {p_led, p_counter, p_speed, PatType(n_led, TypePath("bool"))}

LocalFields ==
    {Field(n_led, TypePath("u8")), Field(n_led, TypePath("u16")),
     Field(n_extra, TypePath("bool"))}

InputSeqs == {seq \in SeqsUpTo(InputParams, MaxInputs) : distinct_names(seq)}

LocalSeqs == SeqsUpTo(LocalFields, MaxLocal)

StateFieldsModels ==
    {AnalyzeModel(AnalyzeStateMachine,
        {[Handler(n_on, Some(n_playing), state_inputs) EXCEPT
             !.local_storage = local_storage],
         StateOff},
        {SuperstatePlaying, SuperstatePaused},
        {ActionEnterOn}) :
        state_inputs \in InputSeqs, local_storage \in LocalSeqs}

SuperstateFieldsModels ==
    {AnalyzeModel(AnalyzeStateMachine,
        {ResolvedOn, StateOff},
        {[Handler(n_playing, None, state_inputs) EXCEPT !.local_storage = local_storage],
         Handler(n_paused, Some(n_playing), other_inputs)},
        {ActionEnterOn}) :
        state_inputs \in InputSeqs, local_storage \in LocalSeqs,
        other_inputs \in {<<>>, <<p_led>>}}

FieldsModels == StateFieldsModels \cup SuperstateFieldsModels

(* Handler names: every identifier of at most MaxName characters over      *)
(* NameChars, so with leading, trailing and doubled underscores and with   *)
(* either case.  A name of underscores only has no PascalCase form (the    *)
(* variant identifier would be empty) and is left out.                     *)
NameChars == {"b", "B", "_"}

MaxName == 3

HandlerNames ==
    {name \in SeqsUpTo(NameChars, MaxName) : \E i \in 1..Len(name) : name[i] # "_"}

(* Two handlers of one impl block have different names. *)
NamePairs == {pair \in HandlerNames \X HandlerNames : pair[1] # pair[2]}

StateNamesModels ==
    {AnalyzeModel(AnalyzeStateMachine,
        {Handler(Ident(pair[1]), Some(n_playing), <<p_led>>),
         Handler(Ident(pair[2]), Some(n_playing), <<p_led>>)},
        {SuperstatePlaying},
        {ActionEnterOn}) :
        pair \in NamePairs}

SuperstateNamesModels ==
    {AnalyzeModel(AnalyzeStateMachine,
        {StateOff},
        {Handler(Ident(pair[1]), None, <<p_led>>),
         Handler(Ident(pair[2]), None, <<p_led>>)},
        {ActionEnterOn}) :
        pair \in NamePairs}

NamesModels == StateNamesModels \cup SuperstateNamesModels

(* Parameter lists: an optional receiver, then at most MaxParams typed     *)
(* parameters of different names in any order; the typed parameters that   *)
(* are neither the event nor the context are the state inputs.             *)
MaxParams == 2

TypedParams == {p_input, p_led, p_counter}

ParamSeqs == {seq \in SeqsUpTo(TypedParams, MaxParams) : distinct_names(seq)}

Receivers == {<<>>, <<FnArgReceiver>>}

is_state_input(pat_type) == pat_type.pat \notin {n_input, n_context}

WithParams(handler, receiver, params, is_async) ==
    [handler EXCEPT !.inputs = receiver \o MapSeq(FnArgTyped, params),
                    !.state_inputs = SelectSeq(params, is_state_input),
                    !.is_async = is_async]

StateCallModels ==
    {AnalyzeModel(AnalyzeStateMachine,
        {WithParams(ResolvedOn, receiver, params, is_async), StateOff},
        {SuperstatePlaying},
        {ActionEnterOn, ActionTick}) :
        receiver \in Receivers, params \in ParamSeqs, is_async \in BOOLEAN}

SuperstateCallModels ==
    {AnalyzeModel(AnalyzeStateMachine,
        {ResolvedOn, StateOff},
        {WithParams(SuperstatePlaying, receiver, params, is_async)},
        {ActionEnterOn, ActionTick}) :
        receiver \in Receivers, params \in ParamSeqs, is_async \in BOOLEAN}

ActionCallModels ==
    {AnalyzeModel(AnalyzeStateMachine,
        {ResolvedOn, StateOff},
        {SuperstatePlaying},
        {AnalyzeAction(n_enter_on, receiver \o MapSeq(FnArgTyped, params), is_async),
         ActionTick}) :
        receiver \in Receivers, params \in ParamSeqs, is_async \in BOOLEAN}

CallModels == StateCallModels \cup SuperstateCallModels \cup ActionCallModels

----------------------------------------------------------------------------
(* The specifications: one per family, and Spec for all of them.           *)

Init ==
    Enter(LinkModels \cup ScanModels \cup GenericsModels \cup FieldsModels
              \cup NamesModels \cup CallModels)

Spec == Init /\ [][Next]_vars

InitLink == Enter(LinkModels)

SpecLink == InitLink /\ [][Next]_vars

InitScan == Enter(ScanModels)

SpecScan == InitScan /\ [][Next]_vars

InitGenerics == Enter(GenericsModels)

SpecGenerics == InitGenerics /\ [][Next]_vars

InitFields == Enter(FieldsModels)

SpecFields == InitFields /\ [][Next]_vars

InitNames == Enter(NamesModels)

SpecNames == InitNames /\ [][Next]_vars

InitCalls == Enter(CallModels)

SpecCalls == InitCalls /\ [][Next]_vars

InitVariants == Enter(FieldsModels \cup NamesModels)

SpecVariants == InitVariants /\ [][Next]_vars

----------------------------------------------------------------------------
(* What the claims speak of: the states and superstates of the Model, each *)
(* named by its site <<kind, key>>.                                        *)

Sites ==
    {<<"state", key>> : key \in Keys(model.states)}
        \cup {<<"superstate", key>> : key \in Keys(model.superstates)}

(* The analysed item at a site, its descriptor in the locals of `lower`,   *)
(* and its descriptor in the returned Ir.                                  *)
ItemAt(site) ==
    IF site[1] = "state" THEN model.states[site[2]] ELSE model.superstates[site[2]]

IsLowered(site) ==
    IF site[1] = "state" THEN site[2] \in Keys(states) ELSE site[2] \in Keys(superstates)

LocalAt(site) ==
    IF site[1] = "state" THEN states[site[2]] ELSE superstates[site[2]]

ReturnedAt(site) ==
    IF site[1] = "state" THEN result.val.states[site[2]]
    ELSE result.val.superstates[site[2]]

Returned == IsSome(result)

DeclaresMissingSuperstate(site) ==
    /\ IsSome(ItemAt(site).superstate)
    /\ ItemAt(site).superstate.val \notin Keys(model.superstates)

AbortedAt(site) == pc = "aborted" /\ IsSome(err) /\ err.val.site = site

(* C1: a state or superstate x that declares a parent p which is a key of  *)
(* the superstate set has superstate_pat = Some(pattern of p) in the       *)
(* returned Ir; no Ir is returned when p is no key, and the abort raised   *)
(* for x is then "superstate not found" naming p (unless x was already     *)
(* rejected for a state input that is no reference); an x that declares no *)
(* parent keeps None.  At no point of the pass is superstate_pat Some of   *)
(* anything but the pattern of an existing superstate descriptor.          *)
C1_SuperstatePat ==
    \A site \in Sites :
        LET item == ItemAt(site)
        IN  /\ IsLowered(site) /\ ~IsSome(item.superstate)
                => LocalAt(site).superstate_pat = PatNone
            /\ IsLowered(site) /\ LocalAt(site).superstate_pat # PatNone
                => /\ IsSome(item.superstate)
                   /\ item.superstate.val \in Keys(superstates)
                   /\ LocalAt(site).superstate_pat
                        = PatSome(superstates[item.superstate.val].pat)
            /\ Returned /\ IsSome(item.superstate)
                => /\ item.superstate.val \in Keys(result.val.superstates)
                   /\ ReturnedAt(site).superstate_pat
                        = PatSome(result.val.superstates[item.superstate.val].pat)
            /\ Returned /\ ~IsSome(item.superstate)
                => ReturnedAt(site).superstate_pat = PatNone
            /\ DeclaresMissingSuperstate(site) => ~Returned
            /\ DeclaresMissingSuperstate(site) /\ AbortedAt(site)
                => \/ /\ err.val.reason = "superstate not found"
                      /\ err.val.ident = item.superstate.val
                   \/ err.val.reason = "input must be passed as a reference"

(* A returned Ir in which a state is linked to one superstate and a        *)
(* superstate to another, each with a pattern of its own.                  *)
C1_Witness ==
    /\ Returned
    /\ model.states[n_on].superstate = Some(n_paused)
    /\ model.superstates[n_playing].superstate = Some(n_paused)
    /\ ~IsSome(model.states[n_off].superstate)
    /\ result.val.states[n_on].superstate_pat
         = PatSome([ty |-> "Superstate", variant |-> <<"P", "a", "u", "s", "e", "d">>,
                    fields |-> <<n_led>>])
    /\ result.val.states[n_off].superstate_pat = PatNone

(* The arguments of the parameters of a generated type's generics, the    *)
(* synthetic scope lifetime left aside.                                    *)
PropagatedArguments(generics) ==
    {param_argument(generics.params[i]) : i \in
        {j \in 1..Len(generics.params) :
            generics.params[j] # LifetimeDef(SUPERSTATE_LIFETIME)}}

DeclaredArguments ==
    {param_argument(model.state_machine.shared_storage_generics.params[i]) :
        i \in 1..Len(model.state_machine.shared_storage_generics.params)}

ReferencedByStates ==
    UNION {model.states[key].candidates_generics : key \in Keys(model.states)}

ReferencedBySuperstates ==
    UNION {model.superstates[key].candidates_generics : key \in Keys(model.superstates)}

(* C2: the parameters of the superstate type, the scope lifetime aside,    *)
(* are the candidate generics (that the shared storage type declares)      *)
(* which some superstate references.                                       *)
C2_SuperstateGenerics ==
    Returned =>
        PropagatedArguments(result.val.state_machine.superstate_generics)
            = (model.state_machine.candidates_generics \cap ReferencedBySuperstates)
                \cap DeclaredArguments

(* C3: the parameters of the state type are the candidate generics, that   *)
(* the shared storage type declares, which some state references.          *)
C3_StateGenerics ==
    Returned =>
        LET got == PropagatedArguments(result.val.state_machine.state_generics)
        IN  /\ got = (model.state_machine.candidates_generics \cap ReferencedByStates)
                        \cap DeclaredArguments
            /\ got \subseteq model.state_machine.candidates_generics
            /\ \A argument \in got :
                   \E key \in Keys(model.states) :
                       argument \in model.states[key].candidates_generics
            /\ Len(result.val.state_machine.state_generics.params) = Cardinality(got)

(* The candidates are 'a, T and N, all declared; the states reference T    *)
(* alone, a superstate references N: the state type gets exactly T.        *)
C3_Witness ==
    /\ Returned
    /\ model.state_machine.candidates_generics = {g_a, g_T, g_N}
    /\ DeclaredArguments = {g_a, g_T, g_N}
    /\ ReferencedByStates = {g_T}
    /\ ReferencedBySuperstates = {g_N}
    /\ result.val.state_machine.state_generics.params = <<param_T>>

AnyAsync ==
    \/ \E key \in Keys(model.states) : model.states[key].is_async
    \/ \E key \in Keys(model.superstates) : model.superstates[key].is_async
    \/ \E key \in Keys(model.actions) : model.actions[key].is_async

Candidates(arg_of(_), ident) ==
    {arg_of(ItemAt(site)).val.ty.elem : site \in
        {s \in Sites : /\ IsSome(arg_of(ItemAt(s)))
                       /\ arg_of(ItemAt(s)).val.pat = ident
                       /\ arg_of(ItemAt(s)).val.ty.kind = "reference"}}

EventArgOf(item) == item.event_arg

ContextArgOf(item) == item.context_arg

Precedence(resolved, explicit, candidates) ==
    IF IsSome(explicit) THEN resolved = explicit.val
    ELSE IF candidates # {} THEN resolved \in candidates
    ELSE resolved = UnitType

(* C5: in every returned Ir the event type is the machine's explicit type  *)
(* if there is one; else the referenced type of a state's or superstate's  *)
(* event parameter named as the configured event identifier; else ().      *)
(* The same holds of the context type.                                     *)
C5_ResolvedTypes ==
    Returned =>
        /\ Precedence(result.val.state_machine.event_type,
                      model.state_machine.event_type,
                      Candidates(EventArgOf, model.state_machine.event_ident))
        /\ Precedence(result.val.state_machine.context_type,
                      model.state_machine.context_type,
                      Candidates(ContextArgOf, model.state_machine.context_ident))

(* No explicit type; one handler binds `input: &Event`, the others bind    *)
(* `event`, which is not the configured name: the event type is Event.     *)
C5_Witness ==
    /\ Returned
    /\ ~IsSome(model.state_machine.event_type)
    /\ model.states[n_on].event_arg = Some(PatType(n_event, RefTo("Event")))
    /\ model.states[n_off].event_arg = Some(PatType(n_event, RefTo("Event")))
    /\ model.superstates[n_playing].event_arg = Some(PatType(n_input, RefTo("Other")))
    /\ result.val.state_machine.event_type = TypePath("Other")
    /\ result.val.state_machine.context_type = UnitType

(* The indices of the fields of that name. *)
IndicesOf(fields, ident) == {i \in 1..Len(fields) : fields[i].ident = ident}

(* The indices of the state inputs of that name. *)
InputIndices(inputs, ident) == {i \in 1..Len(inputs) : inputs[i].pat = ident}

(* The last local storage field of that name. *)
LastLocal(local_storage, ident) ==
    local_storage[CHOOSE i \in IndicesOf(local_storage, ident) :
                      \A j \in IndicesOf(local_storage, ident) : j <= i]

(* The field a state input becomes: of the referenced type in a state, a   *)
(* reference of the superstate scope in a superstate.                      *)
InputField(site, pat_type) ==
    IF site[1] = "state" THEN Field(pat_type.pat, pat_type.ty.elem)
    ELSE Field(pat_type.pat, TypeReference(SUPERSTATE_LIFETIME, pat_type.ty.elem))

(* C6: the field list of every state and superstate variant holds each     *)
(* name once.  A local storage field named as a state input stands, with   *)
(* the local storage type, where that input stood; one of a new name comes *)
(* after the state inputs; the other state inputs keep place and type.     *)
C6_FieldsOnce ==
    \A site \in {s \in Sites : IsLowered(s)} :
        LET item   == ItemAt(site)
            fields == LocalAt(site).variant.fields
            inputs == item.state_inputs
            local  == item.local_storage
        IN  /\ \A i, j \in 1..Len(fields) : fields[i].ident = fields[j].ident => i = j
            /\ \A k \in 1..Len(local) :
                   LET ident == local[k].ident
                   IN  /\ Cardinality(IndicesOf(fields, ident)) = 1
                       /\ \A i \in IndicesOf(fields, ident) :
                              /\ fields[i] = LastLocal(local, ident)
                              /\ IF InputIndices(inputs, ident) # {}
                                 THEN /\ i <= Len(inputs)
                                      /\ inputs[i].pat = ident
                                 ELSE i > Len(inputs)
            /\ Len(fields) >= Len(inputs)
            /\ \A i \in 1..Len(inputs) :
                   IF IndicesOf(local, inputs[i].pat) = {}
                   THEN fields[i] = InputField(site, inputs[i])
                   ELSE fields[i] = LastLocal(local, inputs[i].pat)
            /\ LocalAt(site).pat.fields = [i \in 1..Len(fields) |-> fields[i].ident]

(* `on(led: &bool, counter: &usize)` with local storage `led: u8` and      *)
(* `extra: bool`: led is replaced in place, extra is appended.             *)
C6_Witness ==
    /\ Returned
    /\ model.states[n_on].state_inputs = <<p_led, p_counter>>
    /\ model.states[n_on].local_storage
         = <<Field(n_led, TypePath("u8")), Field(n_extra, TypePath("bool"))>>
    /\ result.val.states[n_on].variant.fields
         = <<Field(n_led, TypePath("u8")), Field(n_counter, TypePath("usize")),
             Field(n_extra, TypePath("bool"))>>

(* The call `lower_action` builds for the action of that name: the shared *)
(* storage for a receiver, then the typed parameters by name, in order.    *)
ActionArgs(inputs) ==
    LET typed == SelectSeq(inputs, LAMBDA input : input.kind = "typed")
        names == [i \in 1..Len(typed) |-> typed[i].pat_type.pat]
    IN  IF \E i \in 1..Len(inputs) : inputs[i].kind = "receiver"
        THEN <<shared_storage>> \o names ELSE names

ActionCall(name) ==
    [kind      |-> "call",
     ty        |-> model.state_machine.shared_storage_ident,
     turbofish |-> as_turbofish(model.state_machine.shared_storage_generics),
     method    |-> name,
     args      |-> ActionArgs(model.actions[name].inputs),
     await     |-> model.actions[name].is_async]

(* C7: in every returned Ir, an item that declares an entry action a has   *)
(* the call of a as its entry_action_call and one that declares none has   *)
(* {}; the same for the exit action; whatever the other two links are.     *)
C7_ActionCalls ==
    Returned =>
        \A site \in Sites :
            LET item == ItemAt(site)
                got  == ReturnedAt(site)
            IN  /\ IF IsSome(item.entry_action)
                   THEN /\ item.entry_action.val \in Keys(model.actions)
                        /\ got.entry_action_call = actions[item.entry_action.val].handler_call
                        /\ got.entry_action_call = ActionCall(item.entry_action.val)
                   ELSE got.entry_action_call = EmptyBlock
                /\ IF IsSome(item.exit_action)
                   THEN /\ item.exit_action.val \in Keys(model.actions)
                        /\ got.exit_action_call = actions[item.exit_action.val].handler_call
                        /\ got.exit_action_call = ActionCall(item.exit_action.val)
                   ELSE got.exit_action_call = EmptyBlock

(* `on` declares the entry action enter_on, the exit action exit_on and no *)
(* superstate; `playing` declares only an exit action.                     *)
C7_Witness ==
    /\ Returned
    /\ model.states[n_on].superstate = None
    /\ model.states[n_on].entry_action = Some(n_enter_on)
    /\ model.states[n_on].exit_action = Some(n_exit_on)
    /\ result.val.states[n_on].entry_action_call.method = n_enter_on
    /\ result.val.states[n_on].entry_action_call.args = <<shared_storage, n_led>>
    /\ result.val.states[n_on].exit_action_call.method = n_exit_on
    /\ result.val.states[n_on].superstate_pat = PatNone
    /\ model.superstates[n_playing].entry_action = None
    /\ model.superstates[n_playing].exit_action = Some(n_exit_on)
    /\ result.val.superstates[n_playing].entry_action_call = EmptyBlock
    /\ result.val.superstates[n_playing].exit_action_call.method = n_exit_on

AllReferencesResolved ==
    \A site \in Sites :
        LET item == ItemAt(site)
        IN  /\ IsSome(item.superstate) => item.superstate.val \in Keys(model.superstates)
            /\ IsSome(item.entry_action) => item.entry_action.val \in Keys(model.actions)
            /\ IsSome(item.exit_action) => item.exit_action.val \in Keys(model.actions)

AllStateInputsAreReferences ==
    \A site \in Sites :
        \A i \in 1..Len(ItemAt(site).state_inputs) :
            ItemAt(site).state_inputs[i].ty.kind = "reference"

Ended == pc \in {"done", "aborted"}

(* C8: the pass returns an Ir if and only if every declared superstate     *)
(* name is a key of the superstate set, every declared entry and exit      *)
(* action name is a key of the action set and every state input is a       *)
(* reference; otherwise it aborts and nothing is returned, at any point.   *)
C8_AllOrNothing ==
    /\ Ended => (Returned <=> (AllReferencesResolved /\ AllStateInputsAreReferences))
    /\ Returned => pc = "done"
    /\ pc = "aborted" => IsSome(err)

HasScopeField(fields) ==
    \E i \in 1..Len(fields) :
        /\ fields[i].ty.kind = "reference"
        /\ fields[i].ty.lifetime = SUPERSTATE_LIFETIME

ScopeLifetimeAt(params) ==
    {i \in 1..Len(params) : params[i] = LifetimeDef(SUPERSTATE_LIFETIME)}

(* C9: the superstate type's generics end with the one scope lifetime      *)
(* parameter if some superstate variant's final field list holds a field   *)
(* borrowed for the superstate scope, and hold no such parameter otherwise.*)
C9_ScopeLifetime ==
    Returned =>
        LET params == result.val.state_machine.superstate_generics.params
        IN  IF \E key \in Keys(result.val.superstates) :
                   HasScopeField(result.val.superstates[key].variant.fields)
            THEN ScopeLifetimeAt(params) = {Len(params)}
            ELSE ScopeLifetimeAt(params) = {}

(* One order of the keys of a map. *)
FixedOrder(keys) ==
    CHOOSE order \in [1..Cardinality(keys) -> keys] :
        \A key \in keys : \E i \in 1..Cardinality(keys) : order[i] = key

(* The scan's candidate when the parameters are met in that order.         *)
RECURSIVE ScanInOrder(_, _, _)
ScanInOrder(args, ident, current) ==
    IF args = <<>> THEN current
    ELSE ScanInOrder(Tail(args), ident,
                     IF binds(Head(args), ident) THEN Some(Head(args).val.ty.elem)
                     ELSE current)

(* The handlers' event and context parameters, states first, each map in   *)
(* its fixed order.                                                        *)
EventArgsInFixedOrder ==
    LET so == FixedOrder(Keys(model.states))
        po == FixedOrder(Keys(model.superstates))
    IN  [i \in 1..Len(so) |-> model.states[so[i]].event_arg]
            \o [i \in 1..Len(po) |-> model.superstates[po[i]].event_arg]

ContextArgsInFixedOrder ==
    LET so == FixedOrder(Keys(model.states))
        po == FixedOrder(Keys(model.superstates))
    IN  [i \in 1..Len(so) |-> model.states[so[i]].context_arg]
            \o [i \in 1..Len(po) |-> model.superstates[po[i]].context_arg]

(* C10: whatever the order in which the maps are iterated, the returned Ir *)
(* is the one the Model determines: the resolved event and context types   *)
(* are those of the scan in the fixed order, the mode, the generics and    *)
(* the linked descriptors are those the Model gives.                       *)
C10_Deterministic ==
    Returned =>
        LET sm == result.val.state_machine
        IN  /\ sm.event_type
                 = resolve_type(model.state_machine.event_type,
                                ScanInOrder(EventArgsInFixedOrder,
                                            model.state_machine.event_ident, None))
            /\ sm.context_type
                 = resolve_type(model.state_machine.context_type,
                                ScanInOrder(ContextArgsInFixedOrder,
                                            model.state_machine.context_ident, None))
            /\ sm.mode = IF AnyAsync THEN "Awaitable" ELSE "Blocking"
            /\ sm.state_generics = state_generics_of(model)
            /\ sm.superstate_generics
                 = superstate_generics_of(model, inspect_lifetime(model.superstates))
            /\ result.val.states
                 = [key \in Keys(model.states) |->
                      linked(lower_state(model.states[key], model.state_machine),
                             model.states[key], superstates, actions)]
            /\ result.val.superstates
                 = [key \in Keys(model.superstates) |->
                      linked(lower_superstate(model.superstates[key], model.state_machine),
                             model.superstates[key], superstates, actions)]

(* The entry a step of one of the two handler scans visits.                *)
InScan == pc \in {"scan_states", "scan_superstates"} /\ pc' # "aborted"

ScannedItem ==
    LET key == CHOOSE k \in todo : todo' = todo \ {k} \/ (pc' # pc /\ todo = {k})
    IN  IF pc = "scan_states" THEN model.states[key] ELSE model.superstates[key]

(* C11 as claimed: once the scan has recorded the type of a parameter      *)
(* bound to the configured event (context) identifier, a matching          *)
(* parameter met later does not change it.                                 *)
C11_FirstWins ==
    [][/\ IsSome(event_type) => event_type' = event_type
       /\ IsSome(context_type) => context_type' = context_type]_vars

(* C11, amended: every parameter bound to the configured event (context)   *)
(* identifier that the scan meets replaces the recorded type, other        *)
(* handlers leave it alone; so without an explicit type the resolved type  *)
(* is that of the matching parameter met last.                             *)
C11_LastWins ==
    /\ [][InScan =>
            /\ event_type' =
                 IF binds(ScannedItem.event_arg, model.state_machine.event_ident)
                 THEN Some(ScannedItem.event_arg.val.ty.elem) ELSE event_type
            /\ context_type' =
                 IF binds(ScannedItem.context_arg, model.state_machine.context_ident)
                 THEN Some(ScannedItem.context_arg.val.ty.elem) ELSE context_type]_vars
    /\ [](Returned =>
            /\ ~IsSome(model.state_machine.event_type) /\ IsSome(event_type)
                 => result.val.state_machine.event_type = event_type.val
            /\ ~IsSome(model.state_machine.context_type) /\ IsSome(context_type)
                 => result.val.state_machine.context_type = context_type.val)

(* Both states bind `input: &Event`, the superstate, scanned after them,   *)
(* binds `input: &Other`: the event type is Other.                         *)
C11_Witness ==
    /\ Returned
    /\ ~IsSome(model.state_machine.event_type)
    /\ model.states[n_on].event_arg = Some(PatType(n_input, RefTo("Event")))
    /\ model.states[n_off].event_arg = Some(PatType(n_input, RefTo("Event")))
    /\ model.superstates[n_playing].event_arg = Some(PatType(n_input, RefTo("Other")))
    /\ result.val.state_machine.event_type = TypePath("Other")

(* The PascalCase form, character by character: an underscore is dropped,  *)
(* a character that opens the name or follows an underscore is uppercased, *)
(* every other character is kept.                                          *)
RECURSIVE PascalFrom(_, _)
PascalFrom(name, i) ==
    IF i > Len(name) THEN <<>>
    ELSE (IF name[i] = "_" THEN <<>>
          ELSE IF i = 1 \/ name[i - 1] = "_" THEN <<to_uppercase(name[i])>>
          ELSE <<name[i]>>) \o PascalFrom(name, i + 1)

FieldNames(fields) == [i \in 1..Len(fields) |-> fields[i].ident]

TypeNameAt(site) ==
    IF site[1] = "state" THEN model.state_machine.state_ident
    ELSE model.state_machine.superstate_ident

(* C12: the variant of a state or superstate is named by the PascalCase    *)
(* form of its handler name; its pattern names the variant's fields, same  *)
(* names in the same order, under the state (superstate) type name and the *)
(* variant name; a state's constructor is named by the handler, takes the  *)
(* variant's fields in the same order and builds that variant.             *)
C12_VariantPatConstructor ==
    \A site \in Sites :
        IsLowered(site) =>
            LET lowered == LocalAt(site)
                name    == ItemAt(site).handler_name
            IN  /\ lowered.variant.ident = PascalFrom(name, 1)
                /\ lowered.pat = [ty      |-> TypeNameAt(site),
                                  variant |-> lowered.variant.ident,
                                  fields  |-> FieldNames(lowered.variant.fields)]
                /\ site[1] = "state" =>
                       lowered.constructor =
                           [ident   |-> name,
                            inputs  |-> lowered.variant.fields,
                            variant |-> lowered.variant.ident,
                            fields  |-> FieldNames(lowered.variant.fields)]
                /\ Returned => /\ ReturnedAt(site).variant = lowered.variant
                               /\ ReturnedAt(site).pat = lowered.pat
                /\ Returned /\ site[1] = "state"
                       => ReturnedAt(site).constructor = lowered.constructor

(* An Ir whose state `_bB` has the variant `BB { led }`, and one whose      *)
(* state `on` has local storage next to its state inputs.                  *)
C12_Witness ==
    /\ Returned
    /\ \/ /\ <<"_", "b", "B">> \in Keys(model.states)
          /\ result.val.states[<<"_", "b", "B">>].variant
               = [ident |-> <<"B", "B">>, fields |-> <<Field(n_led, TypePath("bool"))>>]
          /\ result.val.states[<<"_", "b", "B">>].pat
               = [ty |-> "State", variant |-> <<"B", "B">>, fields |-> <<n_led>>]
       \/ /\ n_on \in Keys(model.states)
          /\ Len(model.states[n_on].local_storage) = 2
          /\ Len(result.val.states[n_on].constructor.inputs) = 3
          /\ result.val.states[n_on].variant.ident = <<"O", "n">>

(* One argument per declared parameter, in the declared order.             *)
ArgumentsFor(inputs) ==
    [i \in 1..Len(inputs) |->
        IF inputs[i].kind = "receiver" THEN shared_storage ELSE inputs[i].pat_type.pat]

IsCallOf(call, handler) ==
    /\ call.method = handler.handler_name
    /\ call.args = ArgumentsFor(handler.inputs)
    /\ call.await = handler.is_async

PropagatedParams(generics) ==
    LET scope(param) == param # LifetimeDef(SUPERSTATE_LIFETIME)
    IN  SelectSeq(generics.params, scope)

SharedGenericsOf == model.state_machine.shared_storage_generics

PositionIn(params, param) == CHOOSE i \in 1..Len(params) : params[i] = param

(* The where-predicates of the shared storage type whose subject is one of *)
(* the given parameters.                                                   *)
PredicatesOf(params) ==
    LET constrains(predicate) ==
            \E i \in 1..Len(params) : predicate.bounded = params[i].ident
    IN  SelectSeq(where_predicates(SharedGenericsOf), constrains)

Elements(seq) == {seq[i] : i \in 1..Len(seq)}

OrderedAsShared(generics) ==
    LET params == PropagatedParams(generics)
    IN  /\ \A i \in 1..Len(params) : params[i] \in Elements(SharedGenericsOf.params)
        /\ \A i, j \in 1..Len(params) :
              i < j => PositionIn(SharedGenericsOf.params, params[i])
                         < PositionIn(SharedGenericsOf.params, params[j])

ConstrainedAsShared(generics) ==
    LET kept == PredicatesOf(PropagatedParams(generics))
    IN  /\ Elements(where_predicates(generics)) = Elements(kept)
        /\ Len(where_predicates(generics)) = Len(kept)

(* C14: in state_generics and in superstate_generics the parameters taken  *)
(* over stand in the relative order of the shared storage type's list, and *)
(* the where-predicates are those of the shared storage type whose subject *)
(* is a parameter taken over: all of them, and none of a parameter that    *)
(* was filtered out.                                                       *)
C14_OrderAndPredicates ==
    Returned =>
        /\ OrderedAsShared(result.val.state_machine.state_generics)
        /\ ConstrainedAsShared(result.val.state_machine.state_generics)
        /\ OrderedAsShared(result.val.state_machine.superstate_generics)
        /\ ConstrainedAsShared(result.val.state_machine.superstate_generics)

(* Blinky<'a, T, N> where T: Clone, 'a: 'static, Vec<T>: Sized, T: Send;   *)
(* State<'a, T> where 'a: 'static, T: Clone, T: Send.                      *)
C14_Witness ==
    /\ Returned
    /\ SharedGenericsOf.params = <<param_a, param_T, param_N>>
    /\ result.val.state_machine.state_generics.params = <<param_a, param_T>>
    /\ result.val.state_machine.state_generics.where_clause
         = Some(<<WherePredicate("lifetime", "'a", <<"'static">>),
                  WherePredicate("type", "T", <<"Clone">>),
                  WherePredicate("type", "T", <<"Send">>)>>)

(* A parameter named as the configured identifier whose type is no         *)
(* reference.                                                              *)
MatchesByValue(arg, ident) ==
    IsSome(arg) /\ arg.val.pat = ident /\ arg.val.ty.kind # "reference"

SomeMatchByValue ==
    \E site \in Sites :
        \/ MatchesByValue(ItemAt(site).event_arg, model.state_machine.event_ident)
        \/ MatchesByValue(ItemAt(site).context_arg, model.state_machine.context_ident)

(* C15: a handler parameter named as the configured event or context       *)
(* identifier whose type is no reference is not recorded and does not stop *)
(* the pass: with every cross-reference resolved and every state input a   *)
(* reference the pass ends with an Ir, whose event and context types are   *)
(* resolved from the explicit types and the matching references alone.     *)
C15_ByValueSkipped ==
    Ended /\ SomeMatchByValue /\ AllReferencesResolved /\ AllStateInputsAreReferences
        => /\ Returned
           /\ Precedence(result.val.state_machine.event_type,
                         model.state_machine.event_type,
                         Candidates(EventArgOf, model.state_machine.event_ident))
           /\ Precedence(result.val.state_machine.context_type,
                         model.state_machine.context_type,
                         Candidates(ContextArgOf, model.state_machine.context_ident))

(* The first cross-reference of an item that does not resolve, in the     *)
(* order superstate, entry action, exit action, with the reason its        *)
(* failure is to be reported with.                                         *)
Missing(name, keys) == IsSome(name) /\ name.val \notin keys

FirstUnresolved(item) ==
    IF Missing(item.superstate, Keys(model.superstates))
    THEN [reason |-> "superstate not found", ident |-> item.superstate.val]
    ELSE IF Missing(item.entry_action, Keys(model.actions))
    THEN [reason |-> "entry action not found", ident |-> item.entry_action.val]
    ELSE [reason |-> "exit action not found", ident |-> item.exit_action.val]

AbortedLinking(site) ==
    /\ AbortedAt(site)
    /\ err.val.reason \notin {"input must be passed as a reference", "not yet implemented"}

(* C16: the failure raised for a state's or a superstate's cross-reference *)
(* names the unresolved name and says what it was looked up as: an action  *)
(* name is reported as an entry action or as an exit action, for a state   *)
(* and for a superstate alike, a superstate name as 'superstate not found'.*)
C16_TaggedFailures ==
    \A site \in Sites :
        AbortedLinking(site) =>
            /\ err.val.reason = FirstUnresolved(ItemAt(site)).reason
            /\ err.val.ident = FirstUnresolved(ItemAt(site)).ident

(* The handler call, entry action call and exit action call of every      *)
(* state and superstate of the returned Ir.                                *)
ReturnedCalls ==
    UNION {{ReturnedAt(site).handler_call, ReturnedAt(site).entry_action_call,
            ReturnedAt(site).exit_action_call} : site \in Sites}

Awaited(call) == call.kind = "call" /\ call.await

BuiltAt(site) ==
    IF site[1] = "state" THEN lower_state(ItemAt(site), model.state_machine)
    ELSE lower_superstate(ItemAt(site), model.state_machine)

(* A descriptor that differs from the built one in the three linked        *)
(* fields at most.                                                         *)
LinkedFieldsOnly(descriptor, built) ==
    descriptor = [built EXCEPT !.superstate_pat    = descriptor.superstate_pat,
                               !.entry_action_call = descriptor.entry_action_call,
                               !.exit_action_call  = descriptor.exit_action_call]

LinkedToBuiltParent(descriptor, item) ==
    descriptor.superstate_pat # PatNone
        => /\ IsSome(item.superstate)
           /\ item.superstate.val \in Keys(model.superstates)
           /\ descriptor.superstate_pat
                = PatSome(BuiltAt(<<"superstate", item.superstate.val>>).pat)

(* C18: linking writes superstate_pat, entry_action_call and               *)
(* exit_action_call only: the variant, pattern, handler call and           *)
(* constructor of every descriptor, during the pass and in the returned    *)
(* Ir, are those built from its item alone; the maps of the pass and of    *)
(* the Ir have the Model's keys; and the pattern a child is linked to is   *)
(* its parent's pattern as built, the parent linked already or not.        *)
C18_LinkingFrame ==
    /\ Keys(states) \in {{}, Keys(model.states)}
    /\ Keys(superstates) \in {{}, Keys(model.superstates)}
    /\ Keys(actions) \in {{}, Keys(model.actions)}
    /\ \A site \in Sites :
          IsLowered(site) =>
              /\ LinkedFieldsOnly(LocalAt(site), BuiltAt(site))
              /\ LinkedToBuiltParent(LocalAt(site), ItemAt(site))
    /\ Returned =>
          /\ Keys(result.val.states) = Keys(model.states)
          /\ Keys(result.val.superstates) = Keys(model.superstates)
          /\ \A site \in Sites :
                /\ LinkedFieldsOnly(ReturnedAt(site), BuiltAt(site))
                /\ LinkedToBuiltParent(ReturnedAt(site), ItemAt(site))

(* `on` is linked to `playing` and to its entry action, `playing` is       *)
(* itself linked to `paused`.                                              *)
C18_Witness ==
    /\ Returned
    /\ model.states[n_on].superstate = Some(n_playing)
    /\ model.superstates[n_playing].superstate = Some(n_paused)
    /\ result.val.superstates[n_playing].superstate_pat
         = PatSome(result.val.superstates[n_paused].pat)
    /\ result.val.states[n_on].superstate_pat
         = PatSome(result.val.superstates[n_playing].pat)
    /\ result.val.states[n_on].entry_action_call # EmptyBlock
    /\ result.val.states[n_on].handler_call
         = lower_state(StateOn, AnalyzeStateMachine).handler_call

(* C19: two states of different handler names have different variant      *)
(* names and so different patterns, and so have two superstates, whatever  *)
(* the handler names are.                                                  *)
C19_DistinctVariants ==
    \A site, other \in Sites :
        /\ site[1] = other[1]
        /\ ItemAt(site).handler_name # ItemAt(other).handler_name
        /\ IsLowered(site) /\ IsLowered(other)
        => /\ LocalAt(site).variant.ident # LocalAt(other).variant.ident
           /\ LocalAt(site).pat # LocalAt(other).pat

====
